---------------------------- MODULE Spec2Model ----------------------------
(***************************************************************************)
(* Model of ignite::utility (modules/platforms/cpp/odbc/src/utility.cpp):  *)
(* the ODBC driver's string and decimal wire codec, the fixed-buffer copy  *)
(* and the driver-call string argument conversion.                        *)
(*                                                                         *)
(* Integers are kept at their C++ width.  TLC's integers are 32-bit, so a  *)
(* 32-bit field that is handled as an unsigned pattern (the decimal's      *)
(* scale-and-sign field) is represented by its four bytes, least           *)
(* significant first, and the bitwise OR is computed bit by bit.  A byte   *)
(* is its bit pattern 0..255, whether the C++ type is char or int8_t.      *)
(*                                                                         *)
(* BinaryReaderImpl, BinaryWriterImpl, BinaryUtils, the stream and Decimal *)
(* are not part of utility.cpp; they are modelled from the specification's *)
(* description of the capabilities the codec consumes.                     *)
(***************************************************************************)
EXTENDS Integers, Sequences, FiniteSets, TLC

VARIABLES
    stream,    \* the bytes written so far (writer and reader share them)
    pos,       \* the reader's cursor: offset of the next byte to read
    str,       \* the caller's destination std::string of ReadString
    decimal,   \* the caller's destination Decimal of ReadDecimal
    status,    \* "ok", or how the last call left: an exception or an abort
    ndebug,    \* TRUE when the build defines NDEBUG (assert compiled out)
    written,   \* history: the values put on the stream, with their extents
    reads,     \* history: the decode calls made, with their outcomes
    copy,      \* CopyStringToBuffer: arguments, buffer and result
    sql        \* SqlStringToString: arguments and result

vars == <<stream, pos, str, decimal, status, ndebug, written, reads, copy, sql>>

-----------------------------------------------------------------------------
(* Bounds and input sets *)

\* How many values are put on one stream.
MaxValues == 2

\* Largest destination buffer allocation of CopyStringToBuffer.
MaxBufLen == 3

\* Longest source string of CopyStringToBuffer and longest driver argument.
MaxSrcLen == 3

\* Strings transferred: empty, plain, and with an embedded zero byte.
Strings == { <<>>, <<97>>, <<97, 0, 98>> }

\* Magnitudes: empty, zero, and 12345 = 0x3039 big-endian.
Magnitudes == { <<>>, <<0>>, <<48, 57>> }

Scales == {0, 2}

-----------------------------------------------------------------------------
(* Program constants *)

\* ignite::impl::binary::IGNITE_TYPE_DECIMAL
IGNITE_TYPE_DECIMAL == 30

\* The length the reader reports for an absent (null) string.
AbsentLen == -1

\* ODBC's "null-terminated string" length.
SQL_NTS == -3

-----------------------------------------------------------------------------
(* 32-bit integers on the wire *)

Min(a, b) == IF a < b THEN a ELSE b

\* x + 2^31 for a negative int32 x, without leaving 32-bit arithmetic.
ClearSign(x) == (x + 2147483647) + 1

\* The four bytes of a non-negative int32, least significant first.
NatToBytes(x) ==
    << x % 256, (x \div 256) % 256, (x \div 65536) % 256, x \div 16777216 >>

\* The stream's WriteInt32: two's complement, least significant byte first.
Int32ToBytes(x) ==
    IF x >= 0 THEN NatToBytes(x)
    ELSE LET b == NatToBytes(ClearSign(x))
         IN  << b[1], b[2], b[3], b[4] + 128 >>

\* The stream's ReadInt32.
BytesToInt32(b) ==
    IF b[4] >= 128
    THEN ((b[1] + 256 * b[2] + 65536 * b[3] + 16777216 * (b[4] - 128))
            - 2147483647) - 1
    ELSE b[1] + 256 * b[2] + 65536 * b[3] + 16777216 * b[4]

RECURSIVE ByteOr(_, _)
\* Bitwise OR of two bytes.
ByteOr(a, b) ==
    IF a = 0 THEN b
    ELSE IF b = 0 THEN a
    ELSE (IF a % 2 = 1 \/ b % 2 = 1 THEN 1 ELSE 0)
            + 2 * ByteOr(a \div 2, b \div 2)

\* Bitwise OR of two 32-bit patterns given by their bytes.
Or32(x, y) == [i \in 1..4 |-> ByteOr(x[i], y[i])]

\* 0x80000000
SignMask == <<0, 0, 0, 128>>

Zero32 == <<0, 0, 0, 0>>

-----------------------------------------------------------------------------
(* Decimal *)

\* Decimal(scale, mag, len): the sign is the top bit of the scale argument.
DecimalCtor(scaleArg, mag) ==
    [ scale |-> IF scaleArg < 0 THEN ClearSign(scaleArg) ELSE scaleArg,
      neg   |-> scaleArg < 0,
      mag   |-> mag ]

GetScale(d) == d.scale

IsNegative(d) == d.neg

GetLength(d) == Len(d.mag)

GetMagnitude(d) == d.mag

\* Decimal(): scale 0, no magnitude.
DefaultDecimal == [scale |-> 0, neg |-> FALSE, mag |-> <<>>]

\* Every decimal the constructor can build from the input sets, a negative
\* zero included: Decimal(0x80000000 | s, zeros, n) is a value of the type.
Decimals == [scale : Scales, neg : BOOLEAN, mag : Magnitudes]

-----------------------------------------------------------------------------
(* Stream reader and writer *)

Avail(s, p, n) == p + n <= Len(s)

Bytes(s, p, n) == SubSeq(s, p + 1, p + n)

\* writer.WriteString(data, len) with non-null data: the length, then the
\* bytes, as one framed unit.
WriterWriteString(s) == Int32ToBytes(Len(s)) \o s

\* What the peer puts on the wire for an absent string.
WriterWriteNull == Int32ToBytes(AbsentLen)

\* reader.ReadString(res, len).  It returns the absent sentinel, having
\* consumed it, or the string's byte count; the bytes are copied to res and
\* consumed only when res is given and len is large enough, otherwise the
\* cursor stays at the value (a length query).
ReaderReadString(s, p, hasBuf, len) ==
    IF ~Avail(s, p, 4)
    THEN [status |-> "io_error", ret |-> 0, pos |-> p, copied |-> FALSE,
          data |-> <<>>]
    ELSE LET realLen == BytesToInt32(Bytes(s, p, 4))
         IN  IF realLen = AbsentLen
             THEN [status |-> "ok", ret |-> AbsentLen, pos |-> p + 4,
                   copied |-> FALSE, data |-> <<>>]
             ELSE IF hasBuf /\ len >= realLen /\ realLen >= 0
             THEN IF Avail(s, p + 4, realLen)
                  THEN [status |-> "ok", ret |-> realLen,
                        pos |-> p + 4 + realLen, copied |-> TRUE,
                        data |-> Bytes(s, p + 4, realLen)]
                  ELSE [status |-> "io_error", ret |-> 0, pos |-> p + 4,
                        copied |-> FALSE, data |-> <<>>]
             ELSE [status |-> "ok", ret |-> realLen, pos |-> p,
                   copied |-> FALSE, data |-> <<>>]

\* std::string::resize(n): keeps the prefix, pads with zero bytes.
Resize(s, n) == [i \in 1..n |-> IF i <= Len(s) THEN s[i] ELSE 0]

-----------------------------------------------------------------------------
(* utility.cpp: the codec *)

\* WriteString: the bytes one call appends to the stream.
WriteStringBytes(s) == WriterWriteString(s)

\* A plausible slip: the magnitude length is written before the scale field.
WriteDecimalBytes_LengthFirst(d) ==
    <<IGNITE_TYPE_DECIMAL>>
        \o Int32ToBytes(GetLength(d))
        \o Or32(Int32ToBytes(GetScale(d)),
                IF IsNegative(d) THEN SignMask ELSE Zero32)
        \o GetMagnitude(d)

\* A plausible slip: the sign is never folded into the scale field.
WriteDecimalBytes_NoSign(d) ==
    <<IGNITE_TYPE_DECIMAL>>
        \o Int32ToBytes(GetScale(d))
        \o Int32ToBytes(GetLength(d))
        \o GetMagnitude(d)

\* WriteDecimal: the bytes one call appends to the stream.
WriteDecimalBytes(d) ==
    <<IGNITE_TYPE_DECIMAL>>
        \o Or32(Int32ToBytes(GetScale(d)),
                IF IsNegative(d) THEN SignMask ELSE Zero32)
        \o Int32ToBytes(GetLength(d))
        \o GetMagnitude(d)

\* A plausible slip: the destination is not cleared for an empty string.
ReadStringOutcome_NoClear(s, p, dst) ==
    LET q == ReaderReadString(s, p, FALSE, 0)
        strLen == q.ret
    IN  IF q.status # "ok"
        THEN [status |-> q.status, str |-> dst, pos |-> q.pos]
        ELSE IF strLen = 0
        THEN LET r == ReaderReadString(s, q.pos, TRUE, 1)
             IN  [status |-> r.status, str |-> dst, pos |-> r.pos]
        ELSE IF strLen < 0
        THEN [status |-> "length_error", str |-> dst, pos |-> q.pos]
        ELSE LET resized == Resize(dst, strLen)
                 r == ReaderReadString(s, q.pos, TRUE, Len(resized))
             IN  [status |-> r.status,
                  str |-> IF r.copied
                          THEN r.data \o SubSeq(resized, Len(r.data) + 1,
                                                Len(resized))
                          ELSE resized,
                  pos |-> r.pos]

\* A plausible slip: no second read for an empty string, so its length
\* field is never consumed.
ReadStringOutcome_NoDummyRead(s, p, dst) ==
    LET q == ReaderReadString(s, p, FALSE, 0)
        strLen == q.ret
    IN  IF q.status # "ok"
        THEN [status |-> q.status, str |-> dst, pos |-> q.pos]
        ELSE IF strLen = 0
        THEN [status |-> "ok", str |-> <<>>, pos |-> q.pos]
        ELSE IF strLen < 0
        THEN [status |-> "length_error", str |-> dst, pos |-> q.pos]
        ELSE LET resized == Resize(dst, strLen)
                 r == ReaderReadString(s, q.pos, TRUE, Len(resized))
             IN  [status |-> r.status,
                  str |-> IF r.copied
                          THEN r.data \o SubSeq(resized, Len(r.data) + 1,
                                                Len(resized))
                          ELSE resized,
                  pos |-> r.pos]

\* ReadString: the length query, then either clear and a one-byte read, or
\* resize and a read into the string.  A negative strLen converts to a size
\* above max_size(), for which resize throws std::length_error.
ReadStringOutcome(s, p, dst) ==
    LET q == ReaderReadString(s, p, FALSE, 0)
        strLen == q.ret
    IN  IF q.status # "ok"
        THEN [status |-> q.status, str |-> dst, pos |-> q.pos]
        ELSE IF strLen = 0
        THEN LET r == ReaderReadString(s, q.pos, TRUE, 1)
             IN  [status |-> r.status, str |-> <<>>, pos |-> r.pos]
        ELSE IF strLen < 0
        THEN [status |-> "length_error", str |-> dst, pos |-> q.pos]
        ELSE LET resized == Resize(dst, strLen)
                 r == ReaderReadString(s, q.pos, TRUE, Len(resized))
             IN  [status |-> r.status,
                  str |-> IF r.copied
                          THEN r.data \o SubSeq(resized, Len(r.data) + 1,
                                                Len(resized))
                          ELSE resized,
                  pos |-> r.pos]

\* The part of ReadDecimal after the type tag: scale field, length,
\* magnitude, construction and swap.
ReadDecimalBody(s, p, dst) ==
    IF ~Avail(s, p, 4)
    THEN [status |-> "io_error", decimal |-> dst, pos |-> p]
    ELSE LET scale == BytesToInt32(Bytes(s, p, 4))
         IN  IF ~Avail(s, p + 4, 4)
             THEN [status |-> "io_error", decimal |-> dst, pos |-> p + 4]
             ELSE LET len == BytesToInt32(Bytes(s, p + 4, 4))
                  IN  IF len < 0
                      THEN [status |-> "length_error", decimal |-> dst,
                            pos |-> p + 8]
                      ELSE IF ~Avail(s, p + 8, len)
                      THEN [status |-> "io_error", decimal |-> dst,
                            pos |-> p + 8]
                      ELSE [status |-> "ok",
                            decimal |-> DecimalCtor(scale,
                                                    Bytes(s, p + 8, len)),
                            pos |-> p + 8 + len]

\* A plausible slip: the type tag is read but never checked.
ReadDecimalOutcome_NoAssert(s, p, dst, nd) ==
    IF ~Avail(s, p, 1)
    THEN [status |-> "io_error", decimal |-> dst, pos |-> p]
    ELSE ReadDecimalBody(s, p + 1, dst)

\* ReadDecimal.  assert() aborts unless the build defines NDEBUG, where it
\* is compiled out and decoding goes on whatever the tag.
ReadDecimalOutcome(s, p, dst, nd) ==
    IF ~Avail(s, p, 1)
    THEN [status |-> "io_error", decimal |-> dst, pos |-> p]
    ELSE LET hdr == s[p + 1]
         IN  IF ~nd /\ hdr # IGNITE_TYPE_DECIMAL
             THEN [status |-> "assert_failed", decimal |-> dst,
                   pos |-> p + 1]
             ELSE ReadDecimalBody(s, p + 1, dst)

-----------------------------------------------------------------------------
(* utility.cpp: buffer copy and driver-call string conversion *)

\* A plausible slip: the terminator's byte is not reserved.
CopyStringToBufferOutcome_OffByOne(s, isNull, buf, buflen) ==
    IF isNull \/ buflen = 0
    THEN [buf |-> buf, ret |-> 0, wrote |-> {}]
    ELSE LET bytesToCopy == Min(Len(s), buflen)
         IN  [buf |-> [i \in 1..Len(buf) |->
                          IF i <= bytesToCopy THEN s[i]
                          ELSE IF i = bytesToCopy + 1 THEN 0
                          ELSE buf[i]],
              ret |-> bytesToCopy,
              wrote |-> 0..bytesToCopy]

\* CopyStringToBuffer.  buf holds the destination's bytes (index i of the
\* C array is buf[i + 1]); wrote is the set of C indices stored to.
CopyStringToBufferOutcome(s, isNull, buf, buflen) ==
    IF isNull \/ buflen = 0
    THEN [buf |-> buf, ret |-> 0, wrote |-> {}]
    ELSE LET bytesToCopy == Min(Len(s), buflen - 1)
         IN  [buf |-> [i \in 1..Len(buf) |->
                          IF i <= bytesToCopy THEN s[i]
                          ELSE IF i = bytesToCopy + 1 THEN 0
                          ELSE buf[i]],
              ret |-> bytesToCopy,
              wrote |-> 0..bytesToCopy]

\* strlen: the number of bytes before the first zero byte.
StrLen(mem) ==
    CHOOSE n \in 0..Len(mem) :
        /\ \A i \in 1..n : mem[i] # 0
        /\ (n < Len(mem) => mem[n + 1] = 0)

\* std::string::assign(p): scans to the terminator, which it reads too.
AssignCStr(mem) ==
    [status |-> "ok", res |-> SubSeq(mem, 1, StrLen(mem)),
     nread |-> StrLen(mem) + 1, nullDeref |-> FALSE]

\* std::string::assign(p, n) with n converted from int32_t to size_t: a
\* negative n is above max_size() and throws before any byte is read.
AssignCount(mem, n) ==
    IF n < 0
    THEN [status |-> "length_error", res |-> <<>>, nread |-> 0,
          nullDeref |-> FALSE]
    ELSE [status |-> "ok", res |-> SubSeq(mem, 1, n), nread |-> n,
          nullDeref |-> FALSE]

\* What reading through a null pointer is recorded as.
NullDereference ==
    [status |-> "fault", res |-> <<>>, nread |-> 1, nullDeref |-> TRUE]

\* A plausible slip: SQL_NTS is not told apart from an explicit length.
SqlStringToStringOutcome_NoNts(isNull, mem, len) ==
    IF isNull \/ len = 0
    THEN [status |-> "ok", res |-> <<>>, nread |-> 0, nullDeref |-> FALSE]
    ELSE AssignCount(mem, len)

\* A plausible slip: only the length is tested, not the pointer.
SqlStringToStringOutcome_NoNullCheck(isNull, mem, len) ==
    IF len = 0
    THEN [status |-> "ok", res |-> <<>>, nread |-> 0, nullDeref |-> FALSE]
    ELSE IF isNull THEN NullDereference
    ELSE IF len = SQL_NTS THEN AssignCStr(mem)
    ELSE AssignCount(mem, len)

\* SqlStringToString.  mem holds the bytes sqlStr points at.
SqlStringToStringOutcome(isNull, mem, len) ==
    IF isNull \/ len = 0
    THEN [status |-> "ok", res |-> <<>>, nread |-> 0, nullDeref |-> FALSE]
    ELSE IF len = SQL_NTS THEN AssignCStr(mem)
    ELSE AssignCount(mem, len)

-----------------------------------------------------------------------------
(* The codec as a state machine: values are put on the stream and decoded *)

IdleCopy ==
    [str |-> <<>>, isNull |-> TRUE, buf |-> <<>>, buflen |-> 0,
     before |-> <<>>, ret |-> 0, wrote |-> {}, done |-> FALSE]

IdleSql ==
    [isNull |-> TRUE, mem |-> <<>>, len |-> 0, status |-> "ok",
     res |-> <<>>, nread |-> 0, nullDeref |-> FALSE, done |-> FALSE]

\* What the destination string may hold before a decode.
PriorStrings == { <<>>, <<120, 121>> }

Init ==
    /\ stream = <<>>
    /\ pos = 0
    /\ str \in PriorStrings
    /\ decimal = DefaultDecimal
    /\ status = "ok"
    /\ ndebug \in BOOLEAN
    /\ written = <<>>
    /\ reads = <<>>
    /\ copy = IdleCopy
    /\ sql = IdleSql

\* The history entry of a value whose bytes are appended to the stream.
Entry(kind, val, bytes) ==
    [kind |-> kind, val |-> val, start |-> Len(stream),
     end |-> Len(stream) + Len(bytes)]

WriteString(s) ==
    /\ status = "ok"
    /\ Len(written) < MaxValues
    /\ stream' = stream \o WriteStringBytes(s)
    /\ written' = Append(written, Entry("string", s, WriteStringBytes(s)))
    /\ UNCHANGED <<pos, str, decimal, status, ndebug, reads, copy, sql>>

WriteDecimal(d) ==
    /\ status = "ok"
    /\ Len(written) < MaxValues
    /\ stream' = stream \o WriteDecimalBytes(d)
    /\ written' = Append(written, Entry("decimal", d, WriteDecimalBytes(d)))
    /\ UNCHANGED <<pos, str, decimal, status, ndebug, reads, copy, sql>>

\* The peer sends an absent string.
WriteNull ==
    /\ status = "ok"
    /\ Len(written) < MaxValues
    /\ stream' = stream \o WriterWriteNull
    /\ written' = Append(written, Entry("null", <<>>, WriterWriteNull))
    /\ UNCHANGED <<pos, str, decimal, status, ndebug, reads, copy, sql>>

\* Every decode so far succeeded and was of the kind of the value it met:
\* the caller sequences its reads as the values were written.
InSync ==
    \A i \in 1..Len(reads) :
        /\ reads[i].status = "ok"
        /\ i <= Len(written)
        /\ reads[i].kind = written[i].kind

\* The caller decodes a string where a string, present or absent, is next.
ReadString ==
    /\ status = "ok"
    /\ InSync
    /\ Len(reads) < Len(written)
    /\ written[Len(reads) + 1].kind \in {"string", "null"}
    /\ LET o == ReadStringOutcome(stream, pos, str)
       IN  /\ str' = o.str
           /\ pos' = o.pos
           /\ status' = o.status
           /\ reads' = Append(reads,
                              [kind |-> "string", start |-> pos,
                               end |-> o.pos, status |-> o.status,
                               before |-> str, after |-> o.str])
    /\ UNCHANGED <<stream, decimal, ndebug, written, copy, sql>>

\* The caller decodes a decimal, whatever is next on the stream.
ReadDecimal ==
    /\ status = "ok"
    /\ InSync
    /\ Len(reads) < MaxValues
    /\ LET o == ReadDecimalOutcome(stream, pos, decimal, ndebug)
       IN  /\ decimal' = o.decimal
           /\ pos' = o.pos
           /\ status' = o.status
           /\ reads' = Append(reads,
                              [kind |-> "decimal", start |-> pos,
                               end |-> o.pos, status |-> o.status,
                               before |-> decimal, after |-> o.decimal])
    /\ UNCHANGED <<stream, str, ndebug, written, copy, sql>>

Next ==
    \/ \E s \in Strings : WriteString(s)
    \/ \E d \in Decimals : WriteDecimal(d)
    \/ WriteNull
    \/ ReadString
    \/ ReadDecimal

Spec == Init /\ [][Next]_vars

-----------------------------------------------------------------------------
(* CopyStringToBuffer on inputs drawn from bounded sets *)

SeqsUpTo(S, n) == UNION { [1..k -> S] : k \in 0..n }

\* The destination before the call: a pattern no copy writes.
Fill(n) == [i \in 1..n |-> 170]

\* buf is null, or points at an allocation of at least buflen bytes.
CopyInputs ==
    { [str |-> s, isNull |-> nl, buf |-> Fill(a), buflen |-> c,
       before |-> Fill(a), ret |-> 0, wrote |-> {}, done |-> FALSE] :
        s \in SeqsUpTo({0, 104}, MaxSrcLen), nl \in BOOLEAN,
        a \in 0..MaxBufLen, c \in 0..MaxBufLen }

InitCopy ==
    /\ stream = <<>>
    /\ pos = 0
    /\ str = <<>>
    /\ decimal = DefaultDecimal
    /\ status = "ok"
    /\ ndebug = FALSE
    /\ written = <<>>
    /\ reads = <<>>
    /\ copy \in { c \in CopyInputs : c.isNull \/ c.buflen <= Len(c.buf) }
    /\ sql = IdleSql

CopyStringToBuffer ==
    /\ ~copy.done
    /\ LET o == CopyStringToBufferOutcome(copy.str, copy.isNull, copy.buf,
                                          copy.buflen)
       IN  copy' = [copy EXCEPT !.buf = o.buf, !.ret = o.ret,
                                !.wrote = o.wrote, !.done = TRUE]
    /\ UNCHANGED <<stream, pos, str, decimal, status, ndebug, written,
                   reads, sql>>

NextCopy == CopyStringToBuffer

SpecCopy == InitCopy /\ [][NextCopy]_vars

-----------------------------------------------------------------------------
(* SqlStringToString on inputs drawn from bounded sets *)

SqlLengths == { -4, SQL_NTS, -1, 0 } \cup 1..MaxSrcLen

\* The caller's side of the ODBC contract: a non-null pointer with a
\* positive length points at that many bytes at least, and with SQL_NTS at
\* bytes that hold a terminator.
SqlInputs ==
    { [isNull |-> nl, mem |-> m, len |-> n, status |-> "ok", res |-> <<>>,
       nread |-> 0, nullDeref |-> FALSE, done |-> FALSE] :
        nl \in BOOLEAN, m \in SeqsUpTo({0, 65}, MaxSrcLen),
        n \in SqlLengths }

SqlContract(i) ==
    IF i.isNull THEN i.mem = <<>>
    ELSE /\ i.len > 0 => i.len <= Len(i.mem)
         /\ i.len = SQL_NTS => \E k \in 1..Len(i.mem) : i.mem[k] = 0

InitSql ==
    /\ stream = <<>>
    /\ pos = 0
    /\ str = <<>>
    /\ decimal = DefaultDecimal
    /\ status = "ok"
    /\ ndebug = FALSE
    /\ written = <<>>
    /\ reads = <<>>
    /\ copy = IdleCopy
    /\ sql \in { i \in SqlInputs : SqlContract(i) }

SqlStringToString ==
    /\ ~sql.done
    /\ LET o == SqlStringToStringOutcome(sql.isNull, sql.mem, sql.len)
       IN  sql' = [sql EXCEPT !.status = o.status, !.res = o.res,
                              !.nread = o.nread, !.nullDeref = o.nullDeref,
                              !.done = TRUE]
    /\ UNCHANGED <<stream, pos, str, decimal, status, ndebug, written,
                   reads, copy>>

NextSql == SqlStringToString

SpecSql == InitSql /\ [][NextSql]_vars

-----------------------------------------------------------------------------
(* Properties of the codec, checked under Spec *)

\* Decode k began at the first byte of written value j.
ReadOf(k, j) == reads[k].start = written[j].start

IsZeroMagnitude(m) == \A i \in 1..Len(m) : m[i] = 0

\* The sign with a zero value counted as non-negative.
NormalizedNegative(d) == d.neg /\ ~IsZeroMagnitude(d.mag)

\* C1: for every string s, the empty string and strings with embedded zero
\* bytes included, ReadString on the bytes WriteString(s) produced succeeds
\* and leaves the destination equal to s, whatever it held before.
C1_StringRoundTrip ==
    \A k \in 1..Len(reads) : \A j \in 1..Len(written) :
        (reads[k].kind = "string" /\ written[j].kind = "string"
            /\ ReadOf(k, j))
        => /\ reads[k].status = "ok"
           /\ reads[k].after = written[j].val

\* An empty string decoded over a non-empty destination, then a string with
\* an embedded zero byte decoded.
C1_Witness ==
    /\ Len(reads) = 2 /\ Len(written) = 2
    /\ reads[1].kind = "string" /\ written[1].kind = "string"
    /\ written[1].val = <<>> /\ reads[1].before = <<120, 121>>
    /\ reads[1].after = <<>>
    /\ reads[2].kind = "string" /\ written[2].kind = "string"
    /\ ReadOf(2, 2)
    /\ written[2].val = <<97, 0, 98>> /\ reads[2].after = <<97, 0, 98>>

\* C2: when the next value on the stream is the absent string, ReadString
\* returns normally with the destination cleared, whatever it held before.
C2_AbsentStringDecodesEmpty ==
    \A k \in 1..Len(reads) : \A j \in 1..Len(written) :
        (reads[k].kind = "string" /\ written[j].kind = "null"
            /\ ReadOf(k, j))
        => /\ reads[k].status = "ok"
           /\ reads[k].after = <<>>

C4_NoNegativeZeroOnWire ==
    \A j \in 1..Len(written) :
        (written[j].kind = "decimal"
            /\ IsZeroMagnitude(GetMagnitude(written[j].val)))
        => stream[written[j].start + 5] < 128

\* C5: WriteDecimal emits exactly: the type tag; a 32-bit field whose bit 31
\* is set exactly when the value is negative and whose bits 0-30 are the
\* scale; a 32-bit field equal to the magnitude's byte count; then that
\* many magnitude bytes in their in-memory order.
C5_DecimalLayout ==
    \A j \in 1..Len(written) :
        written[j].kind = "decimal"
        => LET d == written[j].val
               b == SubSeq(stream, written[j].start + 1, written[j].end)
           IN  /\ Len(b) = 9 + Len(d.mag)
               /\ b[1] = IGNITE_TYPE_DECIMAL
               /\ (b[5] >= 128) = IsNegative(d)
               /\ b[2] + 256 * b[3] + 65536 * b[4]
                    + 16777216 * (b[5] % 128) = GetScale(d)
               /\ b[6] + 256 * b[7] + 65536 * b[8] + 16777216 * b[9]
                    = Len(d.mag)
               /\ SubSeq(b, 10, Len(b)) = d.mag

\* Scale 2, negative, magnitude 12345 is on the stream.
C5_Witness ==
    \E j \in 1..Len(written) :
        /\ written[j].kind = "decimal"
        /\ written[j].val = [scale |-> 2, neg |-> TRUE, mag |-> <<48, 57>>]
        /\ SubSeq(stream, written[j].start + 1, written[j].end)
            = <<30, 2, 0, 0, 128, 2, 0, 0, 0, 48, 57>>

\* C6: when strings and decimals written one after another are decoded in
\* the same order, every decode succeeds and returns the value written, and
\* leaves the cursor exactly at the first byte of the next value, or at the
\* end of the stream after the last.
C6_DecodeConsumesExactlyOneValue ==
    \A k \in 1..Len(reads) :
        (/\ k <= Len(written)
         /\ \A i \in 1..k : /\ reads[i].kind = written[i].kind
                            /\ written[i].kind \in {"string", "decimal"})
        => /\ reads[k].status = "ok"
           /\ reads[k].after = written[k].val
           /\ reads[k].start = written[k].start
           /\ reads[k].end = written[k].end
           /\ (k < Len(written) => reads[k].end = written[k + 1].start)
           /\ (k = Len(written) => reads[k].end = Len(stream))
           /\ (k = Len(reads) => pos = reads[k].end)

\* An empty string and a decimal of empty magnitude written and decoded,
\* the cursor at the end of the stream.
C6_Witness ==
    /\ Len(written) = 2 /\ Len(reads) = 2
    /\ written[1].kind = "string" /\ written[1].val = <<>>
    /\ written[2].kind = "decimal" /\ written[2].val.mag = <<>>
    /\ reads[1].kind = "string" /\ reads[2].kind = "decimal"
    /\ reads[1].end = written[2].start
    /\ status = "ok"
    /\ pos = Len(stream)

\* C9: in a build with assertions, ReadDecimal on a stream whose next byte
\* is not the decimal type code fails its assertion: it does not return a
\* decoded value, and the destination decimal is not assigned.
C9_WrongTagAsserts ==
    \A k \in 1..Len(reads) :
        (/\ reads[k].kind = "decimal"
         /\ ~ndebug
         /\ reads[k].start < Len(stream)
         /\ stream[reads[k].start + 1] # IGNITE_TYPE_DECIMAL)
        => /\ reads[k].status = "assert_failed"
           /\ reads[k].after = reads[k].before
           /\ (k = Len(reads) => status = "assert_failed"
                                 /\ decimal = reads[k].before)

\* A decimal was decoded, then ReadDecimal met a string and asserted, the
\* destination still holding the first decimal.
C9_Witness ==
    /\ ~ndebug
    /\ Len(reads) = 2 /\ Len(written) = 2
    /\ written[1].kind = "decimal" /\ written[2].kind = "string"
    /\ reads[2].kind = "decimal"
    /\ stream[reads[2].start + 1] # IGNITE_TYPE_DECIMAL
    /\ status = "assert_failed"
    /\ decimal = written[1].val
    /\ decimal # DefaultDecimal

-----------------------------------------------------------------------------
(* Properties of CopyStringToBuffer, checked under SpecCopy *)

\* C7: with a non-null buffer and buflen = c >= 1, the call writes the
\* first min(L, c-1) bytes of str, a zero byte at index min(L, c-1), leaves
\* every later byte unchanged and returns min(L, c-1); with a null buffer
\* or buflen = 0 it writes nothing and returns 0.  It never writes at an
\* index >= buflen.
C7_CopyStringToBuffer ==
    copy.done =>
        LET L == Len(copy.str)
            c == copy.buflen
            n == IF L < c - 1 THEN L ELSE c - 1
        IN  /\ \A i \in copy.wrote : i < c
            /\ IF copy.isNull \/ c = 0
               THEN /\ copy.ret = 0
                    /\ copy.wrote = {}
                    /\ copy.buf = copy.before
               ELSE /\ copy.ret = n
                    /\ \A i \in 1..n : copy.buf[i] = copy.str[i]
                    /\ copy.buf[n + 1] = 0
                    /\ \A i \in (n + 2)..Len(copy.buf) :
                            copy.buf[i] = copy.before[i]
                    /\ copy.wrote = 0..n

\* A three-byte string truncated into a capacity of two, inside a larger
\* allocation whose last byte is untouched.
C7_Witness ==
    /\ copy.done /\ ~copy.isNull
    /\ Len(copy.str) = 3 /\ copy.buflen = 2 /\ Len(copy.buf) = 3
    /\ copy.ret = 1
    /\ copy.buf = <<copy.str[1], 0, 170>>

-----------------------------------------------------------------------------
(* Properties of SqlStringToString, checked under SpecSql *)

\* C8: the result is the empty string when the pointer is null or the
\* length is 0, with no byte read; the bytes before the first zero byte
\* when the length is SQL_NTS; and exactly the first len bytes, embedded
\* zero bytes kept, when len > 0.
C8_SqlStringToString ==
    sql.done =>
        /\ (sql.isNull \/ sql.len = 0)
            => (sql.status = "ok" /\ sql.res = <<>> /\ sql.nread = 0)
        /\ (~sql.isNull /\ sql.len = SQL_NTS)
            => /\ sql.status = "ok"
               /\ Len(sql.res) < Len(sql.mem)
               /\ \A i \in 1..Len(sql.res) :
                    sql.res[i] = sql.mem[i] /\ sql.res[i] # 0
               /\ sql.mem[Len(sql.res) + 1] = 0
        /\ (~sql.isNull /\ sql.len > 0)
            => /\ sql.status = "ok"
               /\ Len(sql.res) = sql.len
               /\ \A i \in 1..sql.len : sql.res[i] = sql.mem[i]

\* A null-terminated argument with bytes after its terminator.
C8_Witness ==
    /\ sql.done /\ ~sql.isNull
    /\ sql.len = SQL_NTS
    /\ sql.mem = <<65, 0, 65>>
    /\ sql.res = <<65>>

\* C10: for every (ptr, len), negative len other than SQL_NTS included, a
\* null ptr is never dereferenced and no more than len bytes are read (none
\* when len is negative); only with len = SQL_NTS is the number of bytes
\* read not bounded by len, and then the scan ends at the first zero byte.
C10_SqlStringReadsBounded ==
    sql.done =>
        /\ ~sql.nullDeref
        /\ sql.isNull => sql.nread = 0
        /\ sql.len # SQL_NTS
            => sql.nread <= (IF sql.len > 0 THEN sql.len ELSE 0)
        /\ (~sql.isNull /\ sql.len = SQL_NTS)
            => /\ sql.nread \in 1..Len(sql.mem)
               /\ sql.mem[sql.nread] = 0
               /\ \A i \in 1..(sql.nread - 1) : sql.mem[i] # 0

\* A negative length other than SQL_NTS with a non-null pointer at bytes.
C10_Witness ==
    /\ sql.done /\ ~sql.isNull
    /\ sql.len < 0 /\ sql.len # SQL_NTS
    /\ sql.mem # <<>>
    /\ sql.nread = 0

=============================================================================
